---- MODULE Spec2Model ----
(***************************************************************************)
(* Model of check_users.py: the query classifier is_write_query, the       *)
(* module-level cache (_cache, CACHE_TTL) and the run_query tool that      *)
(* gates writes, serves reads from the cache and clears it after a write.  *)
(* Each run_query call is a process walking through the statements of the  *)
(* function; every call into the database driver may succeed, raise        *)
(* mysql.connector.Error, or raise some other exception.                   *)
(***************************************************************************)
EXTENDS Integers, Sequences, FiniteSets, TLC

\* ------------------------------------------------------------------ bounds
NumProcs == 2      \* run_query calls that can be in flight together
MaxTicks == 1      \* clock advances explored
MaxCommits == 1    \* successful write commits explored
MaxLen == 5        \* length of generated classifier inputs
MaxTerm == 2       \* length of generated search terms

\* --------------------------------------------------------------- constants
CACHE_TTL == 300

Procs == 1..NumProcs

\* Python None and the values a column can hold.  A native value and its
\* str() are different values: the tag records which side of the
\* conversion a value is on.
None == [tag |-> "none", val |-> ""]
Int1 == [tag |-> "int", val |-> "1"]

\* The contents the table behind the queries can have, as the rows
\* cursor.fetchall() returns: no row, one row, two rows one of them NULL.
Tables == { <<>>, <<[ID |-> Int1]>>, <<[ID |-> Int1], [ID |-> None]>> }

\* cursor.rowcount after a write
RowCounts == {0, 1}

RECURSIVE SeqsUpTo(_, _)
SeqsUpTo(S, n) ==
    IF n = 0 THEN {<<>>}
    ELSE LET shorter == SeqsUpTo(S, n - 1)
         IN  shorter \cup {Append(s, x) : s \in {t \in shorter : Len(t) = n - 1}, x \in S}

\* str(value) without the test for None
StrValue_of_none(v) == [tag |-> "str", val |-> IF v = None THEN "None" ELSE v.val]

\* clean_row[key] = str(value) if value is not None else None
StrValue(v) == IF v = None THEN None ELSE [tag |-> "str", val |-> v.val]
CleanRow(row) == [k \in DOMAIN row |-> StrValue(row[k])]
CleanRows(rows) == [i \in 1..Len(rows) |-> CleanRow(rows[i])]

\* ------------------------------------------------------- query classifier
\* A query is a sequence of one-character strings.
Whitespace == {" ", "\t"}

Upper(c) ==
    CASE c = "a" -> "A" [] c = "c" -> "C" [] c = "d" -> "D" [] c = "e" -> "E"
      [] c = "i" -> "I" [] c = "l" -> "L" [] c = "n" -> "N" [] c = "o" -> "O"
      [] c = "p" -> "P" [] c = "r" -> "R" [] c = "s" -> "S" [] c = "t" -> "T"
      [] c = "u" -> "U" [] c = "x" -> "X"
      [] OTHER -> c

upper(s) == [i \in 1..Len(s) |-> Upper(s[i])]

RECURSIVE lstrip(_)
lstrip(s) == IF s # <<>> /\ Head(s) \in Whitespace THEN lstrip(Tail(s)) ELSE s

RECURSIVE rstrip(_)
rstrip(s) ==
    IF s # <<>> /\ s[Len(s)] \in Whitespace THEN rstrip(SubSeq(s, 1, Len(s) - 1)) ELSE s

strip(s) == rstrip(lstrip(s))

startswith(s, prefix) ==
    /\ Len(s) >= Len(prefix)
    /\ SubSeq(s, 1, Len(prefix)) = prefix

\* the keyword list with DROP left out
write_keywords_no_drop ==
    { <<"I","N","S","E","R","T">>, <<"U","P","D","A","T","E">>,
      <<"D","E","L","E","T","E">>, <<"A","L","T","E","R">>,
      <<"C","R","E","A","T","E">>,
      <<"T","R","U","N","C","A","T","E">>, <<"R","E","P","L","A","C","E">> }

write_keywords ==
    { <<"I","N","S","E","R","T">>, <<"U","P","D","A","T","E">>,
      <<"D","E","L","E","T","E">>, <<"A","L","T","E","R">>,
      <<"D","R","O","P">>, <<"C","R","E","A","T","E">>,
      <<"T","R","U","N","C","A","T","E">>, <<"R","E","P","L","A","C","E">> }

\* the classifier without .upper()
is_write_query_no_upper(q) ==
    \E keyword \in write_keywords : startswith(strip(q), keyword)

is_write_query(q) ==
    LET query_upper == upper(strip(q))
    IN  \E keyword \in write_keywords : startswith(query_upper, keyword)

\* The queries the run_query calls of the model are made with.
Q_SELECT == <<"S","E","L","E","C","T"," ","1">>
Q_select == <<" ","s","e","l","e","c","t"," ","1">>
Q_drop == <<"d","r","o","p"," ","t">>
Queries == {Q_SELECT, Q_select, Q_drop}

\* ------------------------------------------------------------------- state
VARIABLES
    cache,          \* _cache: key -> [data, timestamp]
    database,       \* the committed content of the table behind get_db()
    now,            \* time.time()
    pc,             \* per call: the statement of run_query it is at
    query,          \* per call: the arguments of run_query ...
    use_cache,
    force_refresh,
    confirm_write,
    is_write,       \* ... and its locals
    db,             \* the connection: "unbound", "open" or "closed"
    cursor,
    affected_rows,
    results,
    ret,            \* the value the call returned
    contacted,      \* history: the call has called into the database driver
    touched,        \* history: the call has cleared or stored into the cache
    dbVer,          \* history: commits when the call fetched its rows or committed
    fetchedAt,      \* history: per cache key, commits when its payload was fetched
    commits,        \* history: number of write commits that succeeded
    clearedUpTo,    \* history: latest commit whose call has cleared the cache
    wipedFresh,     \* history: a write's clear removed an entry fetched after its commit
    ticks,          \* number of clock advances so far
    startVer,       \* history: commits when the call started
    origin,         \* history: per cache key, the query text that stored the entry,
                    \* the table content and the commits at that moment
    justCleared,    \* history: clear_cache ran and no run_query has started since
    info_pc,        \* get_cache_info: the statement it is at
    info,           \* get_cache_info: the dictionary it builds and returns
    it,             \* get_cache_info: the iterator of _cache.items()
    sreq,           \* search_sql: its arguments
    sres            \* search_sql: the value it returned

params == <<query, use_cache, force_refresh, confirm_write, startVer>>
locals == <<is_write, db, cursor, affected_rows, results>>
store == <<cache, fetchedAt, origin>>
history == <<contacted, touched, dbVer, clearedUpTo, wipedFresh>>
clock == <<now, ticks>>
tools == <<info_pc, info, it, sreq, sres>>
vars == <<cache, database, now, pc, query, use_cache, force_refresh, confirm_write,
          is_write, db, cursor, affected_rows, results, ret, contacted, touched,
          dbVer, fetchedAt, commits, clearedUpTo, wipedFresh, ticks, startVer, origin,
          justCleared, info_pc, info, it, sreq, sres>>

\* ----------------------------------------------------------------- cache
EmptyCache == [k \in {} |-> None]

\* the digest of the trimmed, upper-cased text
get_cache_key_normalized(q) == <<"md5", upper(strip(q))>>

\* hashlib.md5(query.encode()).hexdigest(): a digest of the exact text,
\* taken to be collision-free on the queries of the model.
get_cache_key(q) == <<"md5", q>>

\* the validity test with <= in place of <
is_cache_valid_le(cache_entry, t) ==
    IF cache_entry = None THEN FALSE
    ELSE (t - cache_entry.timestamp) <= CACHE_TTL

is_cache_valid(cache_entry, t) ==
    IF cache_entry = None THEN FALSE
    ELSE (t - cache_entry.timestamp) < CACHE_TTL

\* _cache.get(key)
cache_get(c, key) == IF key \in DOMAIN c THEN c[key] ELSE None

\* A list-valued Python result that may be None.
NoneList == [isnone |-> TRUE, list |-> <<>>]
SomeList(l) == [isnone |-> FALSE, list |-> l]

get_cached_query(c, q, t) ==
    LET key == get_cache_key(q)
        entry == cache_get(c, key)
    IN  IF is_cache_valid(entry, t) THEN SomeList(entry.data) ELSE NoneList

\* `if cached:` -- None and the empty list are both false
truthy(v) == ~v.isnone /\ v.list # <<>>

set_cached_query(c, q, data, t) ==
    LET key == get_cache_key(q)
    IN  [k \in DOMAIN c \cup {key} |->
            IF k = key THEN [data |-> data, timestamp |-> t] ELSE c[k]]

\* the history kept beside set_cached_query
set_fetched(f, q, v) ==
    LET key == get_cache_key(q)
    IN  [k \in DOMAIN f \cup {key} |-> IF k = key THEN v ELSE f[k]]

\* the history of who stored the entry: the query text, the table content
\* and the number of commits at the store
set_origin(f, q, rows, ver) ==
    set_fetched(f, q, [query |-> q, rows |-> rows, ver |-> ver])

\* --------------------------------------------------------------- results
NoRet == [kind |-> "none", query_type |-> "", cached |-> FALSE, data |-> <<>>,
          affected_rows |-> 0, error |-> ""]
ConfirmRet == [NoRet EXCEPT !.kind = "confirm", !.query_type = "WRITE",
                            !.error = "Write operation detected"]
HitRet(data) == [NoRet EXCEPT !.kind = "data", !.query_type = "READ",
                              !.cached = TRUE, !.data = data]
ReadRet(data) == [NoRet EXCEPT !.kind = "data", !.query_type = "READ", !.data = data]
WriteRet(n) == [NoRet EXCEPT !.kind = "success", !.query_type = "WRITE",
                             !.affected_rows = n]
\* {"error": f"Database error: {e}"}; the step that raised stands for e
ErrorRet(step) == [NoRet EXCEPT !.kind = "error", !.error = step]
\* no value: the exception raised at `step` leaves run_query
Escaped(step) == [NoRet EXCEPT !.kind = "exception", !.error = step]

\* What a call into the driver can do: return, raise mysql.connector.Error,
\* or raise an exception that is no mysql.connector.Error.
Outcomes == {"ok", "Error", "Other"}

\* ------------------------------------------------------------------ Init
\* get_cache_info and search_sql before any call of them
NoInfo == [total_cached_queries |-> 0, cache_entries |-> <<>>]
NoIter == [used |-> 0, seen |-> {}]
NoSearchArgs == [search_term |-> <<>>, table |-> <<>>, columns |-> <<>>,
                 use_wildcard |-> FALSE]
NoSearchRet == [kind |-> "none", contacted |-> FALSE, table |-> <<>>,
                data |-> <<>>, count |-> 0]

ToolsIdle ==
    /\ info_pc = "idle"
    /\ info = NoInfo
    /\ it = NoIter
    /\ sreq = NoSearchArgs
    /\ sres = NoSearchRet

Init ==
    /\ cache = EmptyCache
    /\ fetchedAt = EmptyCache
    /\ database \in Tables
    /\ now = 0
    /\ ticks = 0
    /\ commits = 0
    /\ clearedUpTo = 0
    /\ wipedFresh = FALSE
    /\ pc = [p \in Procs |-> "idle"]
    /\ query = [p \in Procs |-> <<>>]
    /\ use_cache = [p \in Procs |-> FALSE]
    /\ force_refresh = [p \in Procs |-> FALSE]
    /\ confirm_write = [p \in Procs |-> FALSE]
    /\ is_write = [p \in Procs |-> FALSE]
    /\ db = [p \in Procs |-> "unbound"]
    /\ cursor = [p \in Procs |-> "unbound"]
    /\ affected_rows = [p \in Procs |-> 0]
    /\ results = [p \in Procs |-> <<>>]
    /\ ret = [p \in Procs |-> NoRet]
    /\ contacted = [p \in Procs |-> FALSE]
    /\ touched = [p \in Procs |-> FALSE]
    /\ dbVer = [p \in Procs |-> 0]
    /\ startVer = [p \in Procs |-> 0]
    /\ origin = EmptyCache
    /\ justCleared = FALSE
    /\ ToolsIdle

\* ------------------------------------------------------------- run_query
AllIdle == \A p \in Procs : pc[p] = "idle"

\* A tool call arrives.
Start(p, q, uc, fr, cw) ==
    /\ pc[p] = "idle"
    /\ (is_write_query(q) /\ cw) => commits < MaxCommits
    /\ pc' = [pc EXCEPT ![p] = "classify"]
    /\ query' = [query EXCEPT ![p] = q]
    /\ use_cache' = [use_cache EXCEPT ![p] = uc]
    /\ force_refresh' = [force_refresh EXCEPT ![p] = fr]
    /\ confirm_write' = [confirm_write EXCEPT ![p] = cw]
    /\ startVer' = [startVer EXCEPT ![p] = commits]
    /\ justCleared' = FALSE
    /\ UNCHANGED <<locals, store, history, clock, database, commits, ret, tools>>

\* the gate left out
needs_confirmation_never(w, cw) == FALSE

\* `if is_write and not confirm_write`
needs_confirmation(w, cw) == w /\ ~cw

\* is_write = is_write_query(query); the confirmation gate; use_cache = False
\* for a write.
Classify(p) ==
    /\ pc[p] = "classify"
    /\ LET w == is_write_query(query[p])
       IN  /\ is_write' = [is_write EXCEPT ![p] = w]
           /\ IF needs_confirmation(w, confirm_write[p])
              THEN /\ pc' = [pc EXCEPT ![p] = "returned"]
                   /\ ret' = [ret EXCEPT ![p] = ConfirmRet]
                   /\ UNCHANGED use_cache
              ELSE /\ pc' = [pc EXCEPT ![p] = "check_cache"]
                   /\ use_cache' = [use_cache EXCEPT ![p] = IF w THEN FALSE ELSE @]
                   /\ UNCHANGED ret
    /\ UNCHANGED <<query, force_refresh, confirm_write, startVer, db, cursor,
                   affected_rows, results, store, history, clock, database, commits>>

\* the lookup that drops an entry it finds expired
CheckCache_evict(p) ==
    /\ pc[p] = "check_cache"
    /\ LET cached == get_cached_query(cache, query[p], now)
           keep == {k \in DOMAIN cache :
                      k # get_cache_key(query[p]) \/ is_cache_valid(cache[k], now)}
       IN  /\ IF use_cache[p] /\ ~force_refresh[p] /\ ~is_write[p] /\ truthy(cached)
              THEN /\ pc' = [pc EXCEPT ![p] = "returned"]
                   /\ ret' = [ret EXCEPT ![p] = HitRet(cached.list)]
              ELSE /\ pc' = [pc EXCEPT ![p] = "get_db"]
                   /\ UNCHANGED ret
           /\ cache' = [k \in keep |-> cache[k]]
           /\ fetchedAt' = [k \in keep |-> fetchedAt[k]]
           /\ origin' = [k \in keep |-> origin[k]]
    /\ UNCHANGED <<params, locals, history, clock, database, commits>>

\* `if use_cache and not force_refresh and not is_write`, the lookup and
\* `if cached`.
CheckCache(p) ==
    /\ pc[p] = "check_cache"
    /\ LET cached == get_cached_query(cache, query[p], now)
       IN  IF use_cache[p] /\ ~force_refresh[p] /\ ~is_write[p] /\ truthy(cached)
           THEN /\ pc' = [pc EXCEPT ![p] = "returned"]
                /\ ret' = [ret EXCEPT ![p] = HitRet(cached.list)]
           ELSE /\ pc' = [pc EXCEPT ![p] = "get_db"]
                /\ UNCHANGED ret
    /\ UNCHANGED <<params, locals, store, history, clock, database, commits>>

\* `except Error as e: return {"error": ...}`: a mysql.connector.Error
\* becomes an error result, any other exception leaves run_query.
Raise(p, step, o) ==
    /\ pc' = [pc EXCEPT ![p] = IF o = "Error" THEN "returned" ELSE "raised"]
    /\ ret' = [ret EXCEPT ![p] = IF o = "Error" THEN ErrorRet(step) ELSE Escaped(step)]

\* db = get_db()
GetDb(p, o) ==
    /\ pc[p] = "get_db"
    /\ contacted' = [contacted EXCEPT ![p] = TRUE]
    /\ IF o = "ok"
       THEN /\ db' = [db EXCEPT ![p] = "open"]
            /\ pc' = [pc EXCEPT ![p] = "cursor"]
            /\ UNCHANGED ret
       ELSE /\ Raise(p, "connect", o)
            /\ UNCHANGED db
    /\ UNCHANGED <<params, is_write, cursor, affected_rows, results, store, touched,
                   dbVer, clearedUpTo, wipedFresh, clock, database, commits>>

\* cursor = db.cursor(dictionary=True)
Cursor(p, o) ==
    /\ pc[p] = "cursor"
    /\ IF o = "ok"
       THEN /\ cursor' = [cursor EXCEPT ![p] = "open"]
            /\ pc' = [pc EXCEPT ![p] = "execute"]
            /\ UNCHANGED ret
       ELSE /\ Raise(p, "cursor", o)
            /\ UNCHANGED cursor
    /\ UNCHANGED <<params, is_write, db, affected_rows, results, store, history,
                   clock, database, commits>>

\* cursor.execute(query); for a write, affected_rows = cursor.rowcount
Execute(p, o, n) ==
    /\ pc[p] = "execute"
    /\ IF o = "ok"
       THEN /\ pc' = [pc EXCEPT ![p] = IF is_write[p] THEN "commit" ELSE "fetchall"]
            /\ affected_rows' = [affected_rows EXCEPT ![p] = IF is_write[p] THEN n ELSE @]
            /\ UNCHANGED ret
       ELSE /\ Raise(p, "execute", o)
            /\ UNCHANGED affected_rows
    /\ UNCHANGED <<params, is_write, db, cursor, results, store, history, clock,
                   database, commits>>

\* the commit with the cache cleared before it, whatever its outcome
Commit_clear_first(p, o, t) ==
    /\ pc[p] = "commit"
    /\ cache' = EmptyCache
    /\ fetchedAt' = EmptyCache
    /\ origin' = EmptyCache
    /\ touched' = [touched EXCEPT ![p] = TRUE]
    /\ IF o = "ok"
       THEN /\ database' = t
            /\ commits' = commits + 1
            /\ dbVer' = [dbVer EXCEPT ![p] = commits + 1]
            /\ pc' = [pc EXCEPT ![p] = "w_cursor_close"]
            /\ UNCHANGED ret
       ELSE /\ Raise(p, "commit", o)
            /\ UNCHANGED <<database, commits, dbVer>>
    /\ UNCHANGED <<params, locals, contacted, clearedUpTo, wipedFresh, clock>>

\* db.commit(): the write takes effect in the database
Commit(p, o, t) ==
    /\ pc[p] = "commit"
    /\ IF o = "ok"
       THEN /\ database' = t
            /\ commits' = commits + 1
            /\ dbVer' = [dbVer EXCEPT ![p] = commits + 1]
            /\ pc' = [pc EXCEPT ![p] = "w_cursor_close"]
            /\ UNCHANGED ret
       ELSE /\ Raise(p, "commit", o)
            /\ UNCHANGED <<database, commits, dbVer>>
    /\ UNCHANGED <<params, locals, store, contacted, touched, clearedUpTo, wipedFresh,
                   clock>>

\* cursor.close() / db.close(), on the write path and on the read path
CursorClose(p, o, at, next) ==
    /\ pc[p] = at
    /\ IF o = "ok"
       THEN /\ cursor' = [cursor EXCEPT ![p] = "closed"]
            /\ pc' = [pc EXCEPT ![p] = next]
            /\ UNCHANGED ret
       ELSE /\ Raise(p, "cursor.close", o)
            /\ UNCHANGED cursor
    /\ UNCHANGED <<params, is_write, db, affected_rows, results, store, history,
                   clock, database, commits>>

DbClose(p, o, at, next) ==
    /\ pc[p] = at
    /\ IF o = "ok"
       THEN /\ db' = [db EXCEPT ![p] = "closed"]
            /\ pc' = [pc EXCEPT ![p] = next]
            /\ UNCHANGED ret
       ELSE /\ Raise(p, "db.close", o)
            /\ UNCHANGED db
    /\ UNCHANGED <<params, is_write, cursor, affected_rows, results, store, history,
                   clock, database, commits>>

WriteCursorClose(p, o) == CursorClose(p, o, "w_cursor_close", "w_db_close")
WriteDbClose(p, o) == DbClose(p, o, "w_db_close", "clear")

\* _cache.clear() after the write, and the success result
ClearAfterWrite(p) ==
    /\ pc[p] = "clear"
    /\ cache' = EmptyCache
    /\ fetchedAt' = EmptyCache
    /\ origin' = EmptyCache
    /\ touched' = [touched EXCEPT ![p] = TRUE]
    /\ clearedUpTo' = IF dbVer[p] > clearedUpTo THEN dbVer[p] ELSE clearedUpTo
    /\ wipedFresh' = (wipedFresh \/ \E k \in DOMAIN fetchedAt : fetchedAt[k] >= dbVer[p])
    /\ pc' = [pc EXCEPT ![p] = "returned"]
    /\ ret' = [ret EXCEPT ![p] = WriteRet(affected_rows[p])]
    /\ UNCHANGED <<params, locals, contacted, dbVer, clock, database, commits>>

\* results = cursor.fetchall()
FetchAll(p, o) ==
    /\ pc[p] = "fetchall"
    /\ IF o = "ok"
       THEN /\ results' = [results EXCEPT ![p] = database]
            /\ dbVer' = [dbVer EXCEPT ![p] = commits]
            /\ pc' = [pc EXCEPT ![p] = "r_cursor_close"]
            /\ UNCHANGED ret
       ELSE /\ Raise(p, "fetchall", o)
            /\ UNCHANGED <<results, dbVer>>
    /\ UNCHANGED <<params, is_write, db, cursor, affected_rows, store, contacted,
                   touched, clearedUpTo, wipedFresh, clock, database, commits>>

ReadCursorClose(p, o) == CursorClose(p, o, "r_cursor_close", "r_db_close")
ReadDbClose(p, o) == DbClose(p, o, "r_db_close", "store")

\* the store without `if use_cache`
StoreAndReturn_always(p) ==
    /\ pc[p] = "store"
    /\ LET data == CleanRows(results[p])
       IN  /\ cache' = set_cached_query(cache, query[p], data, now)
           /\ fetchedAt' = set_fetched(fetchedAt, query[p], dbVer[p])
           /\ origin' = set_origin(origin, query[p], database, commits)
           /\ touched' = [touched EXCEPT ![p] = TRUE]
           /\ ret' = [ret EXCEPT ![p] = ReadRet(data)]
    /\ pc' = [pc EXCEPT ![p] = "returned"]
    /\ UNCHANGED <<params, locals, contacted, dbVer, clearedUpTo, wipedFresh, clock,
                   database, commits>>

\* the conversion of the rows, `if use_cache: set_cached_query(query, data)`
\* and the read result
StoreAndReturn(p) ==
    /\ pc[p] = "store"
    /\ LET data == CleanRows(results[p])
       IN  /\ IF use_cache[p]
              THEN /\ cache' = set_cached_query(cache, query[p], data, now)
                   /\ fetchedAt' = set_fetched(fetchedAt, query[p], dbVer[p])
                   /\ origin' = set_origin(origin, query[p], database, commits)
                   /\ touched' = [touched EXCEPT ![p] = TRUE]
              ELSE UNCHANGED <<cache, fetchedAt, origin, touched>>
           /\ ret' = [ret EXCEPT ![p] = ReadRet(data)]
    /\ pc' = [pc EXCEPT ![p] = "returned"]
    /\ UNCHANGED <<params, locals, contacted, dbVer, clearedUpTo, wipedFresh, clock,
                   database, commits>>

\* The call is over: its frame is gone.  A connection it left open is not
\* closed by anything in the program.
Finish(p) ==
    /\ pc[p] \in {"returned", "raised"}
    /\ pc' = [pc EXCEPT ![p] = "idle"]
    /\ query' = [query EXCEPT ![p] = <<>>]
    /\ use_cache' = [use_cache EXCEPT ![p] = FALSE]
    /\ force_refresh' = [force_refresh EXCEPT ![p] = FALSE]
    /\ confirm_write' = [confirm_write EXCEPT ![p] = FALSE]
    /\ is_write' = [is_write EXCEPT ![p] = FALSE]
    /\ db' = [db EXCEPT ![p] = "unbound"]
    /\ cursor' = [cursor EXCEPT ![p] = "unbound"]
    /\ affected_rows' = [affected_rows EXCEPT ![p] = 0]
    /\ results' = [results EXCEPT ![p] = <<>>]
    /\ ret' = [ret EXCEPT ![p] = NoRet]
    /\ contacted' = [contacted EXCEPT ![p] = FALSE]
    /\ touched' = [touched EXCEPT ![p] = FALSE]
    /\ dbVer' = [dbVer EXCEPT ![p] = 0]
    /\ startVer' = [startVer EXCEPT ![p] = 0]
    /\ UNCHANGED <<store, clearedUpTo, wipedFresh, clock, database, commits>>

\* ----------------------------------------------------------- clear_cache
\* `_cache = {}` in place of _cache.clear(): a local name is bound and the
\* module's dictionary keeps its entries
clear_cache_rebinds ==
    /\ justCleared' = TRUE
    /\ UNCHANGED <<params, locals, pc, ret, store, history, clock, database, commits,
                   tools>>

clear_cache ==
    /\ cache' = EmptyCache
    /\ fetchedAt' = EmptyCache
    /\ origin' = EmptyCache
    /\ justCleared' = TRUE
    /\ UNCHANGED <<params, locals, pc, ret, history, clock, database, commits, tools>>

\* -------------------------------------------------------- get_cache_info
run_query_state ==
    <<params, locals, pc, ret, store, history, clock, database, commits, justCleared>>

\* one element of info["cache_entries"]; the key preview stands for
\* key[:16] + "..."
InfoEntry(key, entry, t) ==
    [ key |-> <<"preview", key>>,
      age_seconds |-> t - entry.timestamp,
      is_valid |-> is_cache_valid(entry, t),
      row_count |-> IF entry.data # <<>> THEN Len(entry.data) ELSE 0 ]

\* info = {"total_cached_queries": len(_cache), "cache_entries": []}
InfoStart ==
    /\ info_pc = "idle"
    /\ info' = [total_cached_queries |-> Cardinality(DOMAIN cache),
                cache_entries |-> <<>>]
    /\ info_pc' = "iter"
    /\ UNCHANGED <<it, sreq, sres, run_query_state>>

\* `for key, entry in _cache.items()`: the iterator is created and
\* remembers the size of the dictionary
InfoIter ==
    /\ info_pc = "iter"
    /\ it' = [used |-> Cardinality(DOMAIN cache), seen |-> {}]
    /\ info_pc' = "next"
    /\ UNCHANGED <<info, sreq, sres, run_query_state>>

\* The next item of the iterator and the loop body for it.  The iterator
\* raises RuntimeError (dictionary changed size during iteration) when the
\* size is no longer the one it remembers; nothing in get_cache_info
\* catches it.  The order of the items is left open.
InfoNext ==
    /\ info_pc = "next"
    /\ IF Cardinality(DOMAIN cache) # it.used
       THEN /\ info_pc' = "raised"
            /\ UNCHANGED <<info, it>>
       ELSE IF DOMAIN cache \ it.seen = {}
       THEN /\ info_pc' = "returned"
            /\ UNCHANGED <<info, it>>
       ELSE \E key \in DOMAIN cache \ it.seen :
                /\ it' = [it EXCEPT !.seen = @ \cup {key}]
                /\ info' = [info EXCEPT !.cache_entries =
                                Append(@, InfoEntry(key, cache[key], now))]
                /\ info_pc' = "next"
    /\ UNCHANGED <<sreq, sres, run_query_state>>

InfoFinish ==
    /\ info_pc \in {"returned", "raised"}
    /\ info_pc' = "idle"
    /\ info' = NoInfo
    /\ it' = NoIter
    /\ UNCHANGED <<sreq, sres, run_query_state>>

get_cache_info ==
    \/ InfoStart
    \/ InfoIter
    \/ InfoNext
    \/ InfoFinish

\* ------------------------------------------------------------ search_sql
\* A table name and a column list are sequences of characters like a query;
\* the empty sequence stands for None as well as for "" (`not table`).
T_wp_users == <<"w","p","_","u","s","e","r","s">>
T_WP_Posts == <<"W","P","_","P","o","s","t","s">>
T_logs == <<"l","o","g","s">>
Cols_c == <<"c">>

Lower(c) ==
    CASE c = "W" -> "w" [] c = "P" -> "p" [] c = "U" -> "u" [] c = "S" -> "s"
      [] OTHER -> c

lower(s) == [i \in 1..Len(s) |-> Lower(s[i])]

\* `sub in s`
contains(s, sub) ==
    \E i \in 0..(Len(s) - Len(sub)) : SubSeq(s, i + 1, i + Len(sub)) = sub

\* the columns searched when none are given; <<>> when the table name
\* gives no hint
inferred_columns(table) ==
    IF contains(lower(table), <<"u","s","e","r">>) THEN <<"user_login">>
    ELSE IF contains(lower(table), <<"p","o","s","t">>) THEN <<"post_title">>
    ELSE IF contains(lower(table), <<"c","o","m","m","e","n","t">>)
    THEN <<"comment_content">>
    ELSE IF contains(lower(table), <<"o","p","t","i","o","n">>) THEN <<"option_name">>
    ELSE <<>>

Clarify == [NoSearchRet EXCEPT !.kind = "needs_clarification"]

\* search_sql from its first statement to its return.  o is what the
\* database round-trip does, rows what the statement finds.
search_sql(o, rows) ==
    /\ sres.kind = "none"
    /\ LET term == strip(sreq.search_term)
           columns == IF sreq.columns = <<>> THEN inferred_columns(sreq.table)
                      ELSE sreq.columns
       IN  sres' =
             IF term = <<>> THEN Clarify
             ELSE IF Len(term) = 1 /\ sreq.use_wildcard THEN Clarify
             ELSE IF sreq.table = <<>> THEN Clarify
             ELSE IF columns = <<>> THEN Clarify
             ELSE IF o = "ok"
             THEN [kind |-> "results", contacted |-> TRUE, table |-> sreq.table,
                   data |-> CleanRows(rows), count |-> Len(rows)]
             ELSE IF o = "Error"
             THEN [NoSearchRet EXCEPT !.kind = "error", !.contacted = TRUE]
             ELSE [NoSearchRet EXCEPT !.kind = "exception", !.contacted = TRUE]
    /\ UNCHANGED <<sreq, info_pc, info, it, run_query_state>>

\* ------------------------------------------------------------------ time
\* The clock advances explored: to just before the TTL, and to the TTL.
Deltas == {CACHE_TTL - 1, CACHE_TTL}

Tick(d) ==
    /\ ticks < MaxTicks
    /\ now' = now + d
    /\ ticks' = ticks + 1
    /\ UNCHANGED <<params, locals, pc, ret, store, history, database, commits,
                   justCleared, tools>>

\* -------------------------------------------------------- specifications
RunQueryStep(p) ==
    \/ Classify(p)
    \/ CheckCache(p)
    \/ \E o \in Outcomes : GetDb(p, o)
    \/ \E o \in Outcomes : Cursor(p, o)
    \/ \E o \in Outcomes, n \in RowCounts : Execute(p, o, n)
    \/ \E o \in Outcomes, t \in Tables : Commit(p, o, t)
    \/ \E o \in Outcomes : WriteCursorClose(p, o)
    \/ \E o \in Outcomes : WriteDbClose(p, o)
    \/ ClearAfterWrite(p)
    \/ \E o \in Outcomes : FetchAll(p, o)
    \/ \E o \in Outcomes : ReadCursorClose(p, o)
    \/ \E o \in Outcomes : ReadDbClose(p, o)
    \/ StoreAndReturn(p)
    \/ Finish(p)

Step(p) == RunQueryStep(p) /\ UNCHANGED <<justCleared, tools>>

StartAny(p) ==
    \E q \in Queries, uc \in BOOLEAN, fr \in BOOLEAN, cw \in BOOLEAN :
        Start(p, q, uc, fr, cw)

\* Sequential use: one tool call at a time, each served to its end before
\* the next one starts.
Caller == CHOOSE p \in Procs : \A r \in Procs : p <= r

Quiet == AllIdle /\ info_pc = "idle"

Next ==
    \/ Quiet /\ StartAny(Caller)
    \/ Step(Caller)
    \/ Quiet /\ clear_cache
    \/ AllIdle /\ get_cache_info
    \/ \E d \in Deltas : Tick(d)

Spec == Init /\ [][Next]_vars

\* Concurrent use: calls on independent threads, interleaved statement by
\* statement.  The interleavings explored are those of calls that overlap
\* within one reading of the clock, made with one read and one write query,
\* with the cache in use and writes confirmed (a call without them never
\* gets to the cache store).
ConcQueries == {Q_SELECT, Q_drop}

StartConc(p) ==
    \E q \in ConcQueries, fr \in BOOLEAN : Start(p, q, TRUE, fr, TRUE)

NextConc ==
    \/ \E p \in Procs : StartConc(p)
    \/ \E p \in Procs : Step(p)
    \/ clear_cache

SpecConc == Init /\ [][NextConc]_vars

\* get_cache_info on one thread while run_query and clear_cache run on
\* others, interleaved statement by statement.
NextInfo ==
    \/ StartConc(Caller)
    \/ Step(Caller)
    \/ clear_cache
    \/ get_cache_info

SpecInfo == Init /\ [][NextInfo]_vars

\* search_sql on its own, applied to short search terms, a few table names
\* and column lists.
SearchInputs ==
    [ search_term : SeqsUpTo({" ", "a"}, MaxTerm),
      table : {<<>>, T_wp_users, T_WP_Posts, T_logs},
      columns : {<<>>, Cols_c},
      use_wildcard : BOOLEAN ]

InitSearch ==
    /\ cache = EmptyCache
    /\ fetchedAt = EmptyCache
    /\ database \in Tables
    /\ now = 0
    /\ ticks = 0
    /\ commits = 0
    /\ clearedUpTo = 0
    /\ wipedFresh = FALSE
    /\ pc = [p \in Procs |-> "idle"]
    /\ query = [p \in Procs |-> <<>>]
    /\ use_cache = [p \in Procs |-> FALSE]
    /\ force_refresh = [p \in Procs |-> FALSE]
    /\ confirm_write = [p \in Procs |-> FALSE]
    /\ is_write = [p \in Procs |-> FALSE]
    /\ db = [p \in Procs |-> "unbound"]
    /\ cursor = [p \in Procs |-> "unbound"]
    /\ affected_rows = [p \in Procs |-> 0]
    /\ results = [p \in Procs |-> <<>>]
    /\ ret = [p \in Procs |-> NoRet]
    /\ contacted = [p \in Procs |-> FALSE]
    /\ touched = [p \in Procs |-> FALSE]
    /\ dbVer = [p \in Procs |-> 0]
    /\ startVer = [p \in Procs |-> 0]
    /\ origin = EmptyCache
    /\ justCleared = FALSE
    /\ info_pc = "idle"
    /\ info = NoInfo
    /\ it = NoIter
    /\ sreq \in SearchInputs
    /\ sres = NoSearchRet

NextSearch == \E o \in Outcomes, rows \in Tables : search_sql(o, rows)

SpecSearch == InitSearch /\ [][NextSearch]_vars

\* The classifier on its own: run_query's first statement applied to every
\* short text over a small alphabet and to some longer statements.
Alphabet == {" ", "d", "R", "o", "P", "x"}

Samples ==
    { <<"i","n","s","e","r","t"," ","i","n","t","o"," ","t">>,
      <<"I","N","S","E","R","T"," ","I","N","T","O"," ","t">>,
      <<" "," ","I","n","s","e","r","t"," ","i","n","t","o"," ","t">>,
      <<"S","E","L","E","C","T">>, <<"s","e","l","e","c","t">>,
      <<"\t","u","p","d","a","t","e"," ","t">>, <<"U","P","D","A","T","E","D">>,
      <<"d","e","l","e","t","e">>, <<"a","l","t","e","r"," ">>,
      <<"c","r","e","a","t","e">>, <<"T","r","u","n","c","a","t","e">>,
      <<"r","e","p","l","a","c","e","s">>, <<"x"," ","d","R","o","P">>,
      Q_SELECT, Q_select, Q_drop }

ClassifierInputs == SeqsUpTo(Alphabet, MaxLen) \cup Samples

InitClassify ==
    /\ cache = EmptyCache
    /\ fetchedAt = EmptyCache
    /\ database = <<>>
    /\ now = 0
    /\ ticks = 0
    /\ commits = 0
    /\ clearedUpTo = 0
    /\ wipedFresh = FALSE
    /\ pc = [p \in Procs |-> IF p = Caller THEN "classify" ELSE "idle"]
    /\ \E q \in ClassifierInputs : query = [p \in Procs |-> IF p = Caller THEN q ELSE <<>>]
    /\ use_cache = [p \in Procs |-> FALSE]
    /\ force_refresh = [p \in Procs |-> FALSE]
    /\ \E cw \in BOOLEAN : confirm_write = [p \in Procs |-> p = Caller /\ cw]
    /\ is_write = [p \in Procs |-> FALSE]
    /\ db = [p \in Procs |-> "unbound"]
    /\ cursor = [p \in Procs |-> "unbound"]
    /\ affected_rows = [p \in Procs |-> 0]
    /\ results = [p \in Procs |-> <<>>]
    /\ ret = [p \in Procs |-> NoRet]
    /\ contacted = [p \in Procs |-> FALSE]
    /\ touched = [p \in Procs |-> FALSE]
    /\ dbVer = [p \in Procs |-> 0]
    /\ startVer = [p \in Procs |-> 0]
    /\ origin = EmptyCache
    /\ justCleared = FALSE
    /\ ToolsIdle

NextClassify == Classify(Caller) /\ UNCHANGED <<justCleared, tools>>

SpecClassify == InitClassify /\ [][NextClassify]_vars

\* ---------------------------------------------------------------- claims
Over(p) == pc[p] \in {"returned", "raised"}
Moves(p) == pc'[p] # pc[p]
HasEntry(q) == get_cache_key(q) \in DOMAIN cache
Age(q) == now - cache[get_cache_key(q)].timestamp

\* C1: a call whose query is_write_query labels WRITE and whose
\* confirm_write is false returns the confirmation advisory with
\* query_type WRITE straight from the gate: no connection, no cursor, no
\* call into the driver, the cache store as it was, whatever use_cache and
\* force_refresh are and whatever the cache holds.
C1_UnconfirmedWriteWithheld ==
    [][\A p \in Procs :
        (pc[p] = "classify" /\ Moves(p) /\ is_write'[p] /\ ~confirm_write[p])
        => /\ pc'[p] = "returned"
           /\ ret'[p].kind = "confirm"
           /\ ret'[p].query_type = "WRITE"
           /\ cache' = cache
           /\ ~contacted'[p]
           /\ db'[p] = "unbound"
           /\ cursor'[p] = "unbound"]_vars

C1_Witness ==
    \E p \in Procs :
        /\ pc[p] = "returned" /\ ret[p].kind = "confirm"
        /\ is_write[p] /\ ~confirm_write[p]
        /\ use_cache[p] /\ force_refresh[p]
        /\ cache # EmptyCache

\* C2 (as claimed): a READ with use_cache and without force_refresh that
\* finds an entry younger than the TTL under its query, whatever rows the
\* entry holds (none included), returns that payload with cached = true and
\* does not call into the driver.
C2_ValidEntryIsServed ==
    [][\A p \in Procs :
        (/\ pc[p] = "check_cache" /\ Moves(p)
         /\ ~is_write[p] /\ use_cache[p] /\ ~force_refresh[p]
         /\ HasEntry(query[p]) /\ Age(query[p]) < CACHE_TTL)
        => /\ pc'[p] = "returned"
           /\ ret'[p].cached
           /\ ret'[p].data = cache[get_cache_key(query[p])].data
           /\ ~contacted'[p]]_vars

\* C3 (as claimed): once the commit of a confirmed write has succeeded, the
\* cache store is empty when the call is over, also when releasing the
\* cursor or the connection failed.
C3_CommittedWriteLeavesCacheEmpty ==
    \A p \in Procs :
        (Over(p) /\ is_write[p] /\ confirm_write[p] /\ dbVer[p] > 0)
        => cache = EmptyCache

\* C4: a call that failed at connect, execute or commit of a confirmed
\* write, or at connect, execute or fetch of a read, has not cleared the
\* cache store and has not stored into it; and the cache store changes in
\* no step other than a clear or a store.
FailedAt(p, steps) ==
    Over(p) /\ ret[p].kind \in {"error", "exception"} /\ ret[p].error \in steps

C4_FailureLeavesCache ==
    /\ [](\A p \in Procs :
            (\/ is_write[p] /\ confirm_write[p]
                   /\ FailedAt(p, {"connect", "execute", "commit"})
             \/ ~is_write[p] /\ FailedAt(p, {"connect", "execute", "fetchall"}))
            => ~touched[p])
    /\ [][cache' # cache =>
            \/ \E p \in Procs : Moves(p) /\ touched'[p]
                                  /\ pc[p] \in {"clear", "store"}
            \/ \A p \in Procs : pc[p] = pc'[p]]_vars

C4_Witness ==
    \E p \in Procs :
        /\ is_write[p] /\ confirm_write[p] /\ FailedAt(p, {"commit"})
        /\ DOMAIN cache = {get_cache_key(Q_SELECT), get_cache_key(Q_select)}

\* C5 (as claimed): no exception leaves run_query, whatever step of the
\* database round-trip fails and whatever is raised there.
C5_NoFaultEscapes == \A p \in Procs : pc[p] # "raised"

\* C6 (as claimed): with calls running concurrently, after a write's clear
\* the cache store holds no entry fetched before that write's commit, and
\* no write's clear removes an entry fetched after its commit.
C6_ClearIsAtomic ==
    /\ \A k \in DOMAIN fetchedAt : fetchedAt[k] >= clearedUpTo
    /\ ~wipedFresh

\* The text after its leading whitespace, upper-cased, begins with a keyword.
KeywordPrefix(q) ==
    \E n \in 0..Len(q) :
        /\ \A j \in 1..n : q[j] \in Whitespace
        /\ n < Len(q) => q[n + 1] \notin Whitespace
        /\ \E kw \in write_keywords :
            /\ n + Len(kw) <= Len(q)
            /\ \A j \in 1..Len(kw) : Upper(q[n + j]) = kw[j]

\* The first whitespace-delimited token, upper-cased, is a keyword.
FirstTokenIsKeyword(q) ==
    \E n \in 0..Len(q) : \E m \in 1..(Len(q) - n) :
        /\ \A j \in 1..n : q[j] \in Whitespace
        /\ \A j \in (n + 1)..(n + m) : q[j] \notin Whitespace
        /\ n + m < Len(q) => q[n + m + 1] \in Whitespace
        /\ [j \in 1..m |-> Upper(q[n + j])] \in write_keywords

Classified(p) == pc[p] \notin {"idle", "classify"}

\* C7 (as claimed): a query is labelled WRITE exactly when its first token
\* is one of the eight keywords, in any case.
C7_FirstTokenDecides ==
    \A p \in Procs : Classified(p) => (is_write[p] <=> FirstTokenIsKeyword(query[p]))

\* C7 (amended): a query is labelled WRITE exactly when, after its leading
\* whitespace, its text begins with one of the eight keywords in any case,
\* whether or not the keyword ends the first token.
C7_KeywordPrefixDecides ==
    \A p \in Procs : Classified(p) => (is_write[p] <=> KeywordPrefix(query[p]))

C7_Witness ==
    \E p \in Procs :
        Classified(p) /\ is_write[p] /\ ~FirstTokenIsKeyword(query[p])

\* C8 (as claimed): for a READ with use_cache and without force_refresh
\* that finds an entry under its query, the entry is served only at an age
\* below CACHE_TTL, an age of CACHE_TTL or more is a miss that goes to the
\* database, and an age of CACHE_TTL - 1 is a hit.
C8_StrictTtl ==
    [][\A p \in Procs :
        (/\ pc[p] = "check_cache" /\ Moves(p)
         /\ ~is_write[p] /\ use_cache[p] /\ ~force_refresh[p]
         /\ HasEntry(query[p]))
        => /\ pc'[p] = "returned" => Age(query[p]) < CACHE_TTL
           /\ Age(query[p]) >= CACHE_TTL => pc'[p] = "get_db"
           /\ Age(query[p]) = CACHE_TTL - 1 => (pc'[p] = "returned" /\ ret'[p].cached)]_vars

\* C9: a call made with the write statement of the model and confirm_write
\* never returns from the cache lookup, adds no key to the cache store in
\* any of its steps, and when it returns it has called into the driver and
\* its result is not marked cached.
ConfirmedWrite(p) == pc[p] # "idle" /\ query[p] = Q_drop /\ confirm_write[p]

C9_WriteBypassesCache ==
    [][\A p \in Procs :
        (ConfirmedWrite(p) /\ Moves(p))
        => /\ pc[p] = "check_cache" => pc'[p] = "get_db"
           /\ DOMAIN cache' \subseteq DOMAIN cache
           /\ pc'[p] = "returned" => (contacted'[p] /\ ~ret'[p].cached)]_vars

C9_Witness ==
    \E p \in Procs :
        /\ pc[p] = "returned" /\ query[p] = Q_drop /\ confirm_write[p]
        /\ ret[p].kind = "success" /\ contacted[p]

\* C10 (as claimed): when a call is over, the connection it opened is
\* closed, on every path.
C10_ConnectionReleased == \A p \in Procs : Over(p) => db[p] # "open"

\* C11: clear_cache can always run and empties the cache store, and a
\* get_cache_info that follows it before any run_query reports
\* total_cached_queries = 0 and no entry.
C11_ClearThenInfoReportsNothing ==
    /\ Quiet => ENABLED clear_cache
    /\ justCleared => cache = EmptyCache
    /\ justCleared => info_pc # "raised"
    /\ (justCleared /\ info_pc = "returned")
         => (info.total_cached_queries = 0 /\ info.cache_entries = <<>>)

C11_Witness == justCleared /\ info_pc = "returned" /\ commits = 0 /\ now > 0

\* C12 (as claimed): search_sql with a search term of more than one
\* character and no table goes to the database (it searches the common
\* tables) instead of returning before the database is contacted.
C12_NoTableSearchesCommonTables ==
    (sres.kind # "none" /\ Len(strip(sreq.search_term)) > 1 /\ sreq.table = <<>>)
    => (sres.contacted /\ sres.kind # "needs_clarification")

\* C13 (as claimed): with calls made one after the other, no cache hit
\* returns a payload fetched before the latest write commit that succeeded:
\* the first cached read after such a write returns cached = false.
C13_NoHitOlderThanLastWrite ==
    [][\A p \in Procs :
        (pc[p] = "check_cache" /\ pc'[p] = "returned")
        => fetchedAt[get_cache_key(query[p])] >= commits]_vars

\* C14 (as claimed): a READ with use_cache and force_refresh goes to the
\* database whatever the cache holds, and on success the entry of its query
\* is the fresh payload with the current time, an entry the next lookup of
\* the query serves.
C14_ForcedRefreshReplacesEntry ==
    [][\A p \in Procs :
        (~is_write[p] /\ use_cache[p] /\ force_refresh[p])
        => /\ (pc[p] = "check_cache" /\ Moves(p)) => pc'[p] = "get_db"
           /\ (pc[p] = "store" /\ Moves(p))
                => /\ contacted[p]
                   /\ cache'[get_cache_key(query[p])] =
                        [data |-> ret'[p].data, timestamp |-> now]
                   /\ truthy(get_cached_query(cache', query[p], now'))
                   /\ get_cached_query(cache', query[p], now').list = ret'[p].data]_vars

\* C15: a READ with use_cache = false goes from the lookup statement to
\* the database without a hit, none of its steps changes the cache store,
\* and when it returns it has called into the driver, whether it succeeded
\* or failed.
UncachedRead(p) == pc[p] \notin {"idle", "classify"} /\ ~is_write[p] /\ ~use_cache[p]

C15_UncachedReadLeavesCache ==
    [][\A p \in Procs :
        (UncachedRead(p) /\ Moves(p))
        => /\ cache' = cache
           /\ pc[p] = "check_cache" => pc'[p] = "get_db"
           /\ pc'[p] \in {"returned", "raised"} => contacted'[p]]_vars

C15_Witness ==
    \E p \in Procs :
        /\ UncachedRead(p) /\ pc[p] = "returned" /\ ret[p].kind = "data"
        /\ HasEntry(query[p])
        /\ cache[get_cache_key(query[p])].timestamp < now

\* C16: a cache hit for a query returns the payload of an entry stored by
\* a read of the very same text, and a store leaves the entries stored by
\* any other text (one differing in case or surrounding whitespace
\* included) in place and as they were.
C16_EntryOnlyByExactText ==
    [][\A p \in Procs :
        /\ (pc[p] = "check_cache" /\ pc'[p] = "returned")
             => \E k \in DOMAIN cache :
                    origin[k].query = query[p] /\ ret'[p].data = cache[k].data
        /\ (pc[p] = "store" /\ Moves(p))
             => \A k \in DOMAIN cache :
                    origin[k].query # query[p]
                    => (k \in DOMAIN cache' /\ cache'[k] = cache[k]
                        /\ origin'[k] = origin[k])]_vars

C16_Witness ==
    \E p \in Procs :
        /\ pc[p] = "returned" /\ ret[p].cached /\ query[p] = Q_select
        /\ HasEntry(Q_SELECT) /\ HasEntry(Q_select)
        /\ origin[get_cache_key(Q_SELECT)].query = Q_SELECT
        /\ origin[get_cache_key(Q_select)].query = Q_select

\* C17: in every step the set of keys of the cache store stays, or grows
\* by the key of the read that returns its rows in that step, or becomes
\* empty in a clear_cache or in the clear of a write that returns success;
\* and get_cache_info counts and lists every entry, the expired ones too.
C17_OnlyWholesaleRemoval ==
    /\ [][\/ DOMAIN cache' = DOMAIN cache
          \/ \E p \in Procs :
                /\ pc[p] = "store" /\ pc'[p] = "returned" /\ ret'[p].kind = "data"
                /\ DOMAIN cache' = DOMAIN cache \cup {get_cache_key(query[p])}
          \/ /\ DOMAIN cache' = {}
             /\ \/ justCleared'
                \/ \E p \in Procs : pc[p] = "clear" /\ ret'[p].kind = "success"]_vars
    /\ [](info_pc = "returned"
            => /\ info.total_cached_queries = Cardinality(DOMAIN cache)
               /\ Len(info.cache_entries) = Cardinality(DOMAIN cache))

C17_Witness ==
    /\ info_pc = "returned"
    /\ info.total_cached_queries > 0
    /\ \E i \in 1..Len(info.cache_entries) : ~info.cache_entries[i].is_valid

\* C18 (as claimed): with run_query and clear_cache running on other
\* threads, get_cache_info never fails and the total it reports is the
\* number of entries it lists.
C18_InfoIsConsistentSnapshot ==
    /\ info_pc # "raised"
    /\ info_pc = "returned" => info.total_cached_queries = Len(info.cache_entries)

\* C19 (as claimed): with calls running concurrently, a call that starts
\* after a write's commit never returns a cache hit whose payload was
\* stored before that commit.
C19_NoStaleHitAfterCommit ==
    [][\A p \in Procs :
        (pc[p] = "check_cache" /\ pc'[p] = "returned")
        => origin[get_cache_key(query[p])].ver >= startVer[p]]_vars

\* data is rows with every value that is not None replaced by its string
IsStringified(data, rows) ==
    /\ Len(data) = Len(rows)
    /\ \A i \in 1..Len(rows) :
        /\ DOMAIN data[i] = DOMAIN rows[i]
        /\ \A c \in DOMAIN rows[i] :
            IF rows[i][c].tag = "none"
            THEN data[i][c].tag = "none"
            ELSE data[i][c].tag = "str" /\ data[i][c].val = rows[i][c].val

\* C20: with calls made one after the other, every entry of the cache
\* store sits under the key of a read query whose read stored it, holds the
\* stringified rows the table had when it was stored, and has a timestamp
\* not later than the clock; the write statement has no entry.
C20_EntriesComeFromReads ==
    /\ get_cache_key(Q_drop) \notin DOMAIN cache
    /\ \A k \in DOMAIN cache :
        /\ k \in DOMAIN origin
        /\ origin[k].query \in {Q_SELECT, Q_select}
        /\ k = <<"md5", origin[k].query>>
        /\ IsStringified(cache[k].data, origin[k].rows)
        /\ cache[k].timestamp <= now

C20_Witness ==
    \E k \in DOMAIN cache :
        /\ Len(cache[k].data) > 1
        /\ \E i \in 1..Len(cache[k].data) : cache[k].data[i].ID = None
====
